---- MODULE Spec2Model ----
(***************************************************************************)
(* Scoring functions of torch_ecg/databases/physionet_databases/cinc2021.py *)
(* (the CinC2021 evaluation metrics).                                       *)
(*                                                                          *)
(* Matrices are sequences of rows (1-based); labels[i][j] is Python's       *)
(* labels[i-1, j-1].  Every float the code accumulates is a multiple of     *)
(* 1/norm with norm in 1..num_classes, so floats are kept exactly as        *)
(* integers counted in units of 1/Scale, Scale = lcm(1..MaxCls).            *)
(* A quotient of two floats is kept as a reduced fraction <<num, den>>.     *)
(***************************************************************************)
EXTENDS Integers, Sequences, FiniteSets, TLC

\* ------------------------------------------------------------------ bounds
\* largest number of classes (columns)
MaxCls == 3
\* largest number of cells R*C of a label matrix handed to the confusion-matrix functions
MaxCells == 6
\* largest number of cells R*C of a label matrix handed to compute_challenge_metric
MaxCellsW == 4

\* ------------------------------------------------------------------ arithmetic
RECURSIVE Gcd(_, _)
Gcd(a, b) == IF b = 0 THEN a ELSE Gcd(b, a % b)

Lcm(a, b) == (a * b) \div Gcd(a, b)

RECURSIVE LcmUpTo(_)
LcmUpTo(n) == IF n <= 1 THEN 1 ELSE Lcm(n, LcmUpTo(n - 1))

\* the unit: the float 1.0 is Scale, the float 1.0/n is Scale \div n (exact for n in 1..MaxCls)
Scale == LcmUpTo(MaxCls)

\* Python's max(a, b)
Max(a, b) == IF a >= b THEN a ELSE b

\* np.sum over one row
RECURSIVE SumSeq(_)
SumSeq(s) == IF s = <<>> THEN 0 ELSE Head(s) + SumSeq(Tail(s))

\* float(1.0) / normalization, in units of 1/Scale
Reciprocal(normalization) == Scale \div normalization

\* np.shape(labels)
NumRecordings(m) == Len(m)
NumClasses(m) == Len(m[1])

\* ------------------------------------------------------------------ state
VARIABLES
    labels,            \* argument: ground truth, R x C
    outputs,           \* argument: binary predictions, R x C
    normalize,         \* argument of _compute_confusion_matrices
    weights,           \* argument of compute_challenge_metric, C x C
    classes,           \* argument of compute_challenge_metric
    sinus_rhythm,      \* argument of compute_challenge_metric
    pc,                \* position in the running function
    i,                 \* the record loop's index (1-based)
    A,                 \* the local accumulator A of the running function
    sinus_rhythm_index,\* local of compute_challenge_metric
    observed_score,    \* local of compute_challenge_metric
    correct_score,     \* local of compute_challenge_metric
    inactive_score,    \* local of compute_challenge_metric
    result,            \* the returned value
    scalar_pred,       \* argument: scalar predictions, R x C (outputs of _compute_auc)
    class_k,           \* the class loop's index k (1-based)
    num_correct_recordings, \* local of _compute_accuracy
    f_measure,         \* local of _compute_f_measure: the per-class array
    auroc,             \* local of _compute_auc: the per-class array
    auprc,             \* local of _compute_auc: the per-class array
    locals,            \* the locals of compute_all_metrics_detailed, by name
    entry,             \* the entry point called: "detailed" or "summary"
    beta,              \* argument of _compute_beta_measures
    f_beta_measure,    \* local of _compute_beta_measures: the per-class array
    g_beta_measure,    \* local of _compute_beta_measures: the per-class array
    sweep              \* locals of one class of _compute_auc: thresholds, idx, counts

\* the state of the ranking metrics, the set metrics and the entry points
rest == <<beta, f_beta_measure, g_beta_measure, sweep>>

more == <<scalar_pred, class_k, num_correct_recordings, f_measure, auroc, auprc, locals, entry, rest>>

vars == <<labels, outputs, normalize, weights, classes, sinus_rhythm, pc, i, A,
          sinus_rhythm_index, observed_score, correct_score, inactive_score, result, more>>

\* a Python local that is not bound yet / that is bound to v
Unbound == <<>>
Bound(v) == <<v>>
Val(x) == x[1]

\* a call that is not one of _compute_beta_measures and in no threshold sweep
NoRest ==
    /\ beta = Unbound
    /\ f_beta_measure = Unbound
    /\ g_beta_measure = Unbound
    /\ sweep = Unbound

\* a function that runs none of the ranking/set metrics and no entry point
NoMore ==
    /\ scalar_pred = <<>>
    /\ class_k = 0
    /\ num_correct_recordings = Unbound
    /\ f_measure = Unbound
    /\ auroc = Unbound
    /\ auprc = Unbound
    /\ locals = <<>>
    /\ entry = ""
    /\ NoRest

\* the input matrices
Shapes(cells) == {s \in (1..cells) \X (1..MaxCls) : s[1] * s[2] <= cells}
Matrices(R, C, vals) == [1..R -> [1..C -> vals]]

\* ------------------------------------------------------------------ _compute_confusion_matrices
\* np.zeros((num_classes, 2, 2)); A[k][o][l] is Python's A[k-1, o, l]
Zeros22(C) == [k \in 1..C |-> [o \in 0..1 |-> [l \in 0..1 |-> 0]]]

\* what an operator yields when the code raises ValueError instead of a value
ValueError == <<>>

CMCellSwapped(acc, j, l, o, inc) ==
    IF l = 1 /\ o = 1 THEN [acc EXCEPT ![j][1][1] = @ + inc]
    ELSE IF l = 0 /\ o = 1 THEN [acc EXCEPT ![j][0][1] = @ + inc]
    ELSE IF l = 1 /\ o = 0 THEN [acc EXCEPT ![j][1][0] = @ + inc]
    ELSE IF l = 0 /\ o = 0 THEN [acc EXCEPT ![j][0][0] = @ + inc]
    ELSE ValueError

CMCellNoTN(acc, j, l, o, inc) ==
    IF l = 1 /\ o = 1 THEN [acc EXCEPT ![j][1][1] = @ + inc]
    ELSE IF l = 0 /\ o = 1 THEN [acc EXCEPT ![j][1][0] = @ + inc]
    ELSE IF l = 1 /\ o = 0 THEN [acc EXCEPT ![j][0][1] = @ + inc]
    ELSE ValueError

\* the if/elif chain for one (record, class) cell
CMCell(acc, j, l, o, inc) ==
    IF l = 1 /\ o = 1 THEN [acc EXCEPT ![j][1][1] = @ + inc]       \* TP
    ELSE IF l = 0 /\ o = 1 THEN [acc EXCEPT ![j][1][0] = @ + inc]  \* FP
    ELSE IF l = 1 /\ o = 0 THEN [acc EXCEPT ![j][0][1] = @ + inc]  \* FN
    ELSE IF l = 0 /\ o = 0 THEN [acc EXCEPT ![j][0][0] = @ + inc]  \* TN
    ELSE ValueError                                                \* raise ValueError

\* for j in range(num_classes)
RECURSIVE CMRow(_, _, _, _, _)
CMRow(acc, lrow, orow, inc, j) ==
    IF acc = ValueError \/ j > Len(lrow) THEN acc
    ELSE CMRow(CMCell(acc, j, lrow[j], orow[j], inc), lrow, orow, inc, j + 1)

NormalizationByClasses(lrow) == Max(Len(lrow), 1)

\* normalization = float(max(np.sum(labels[i, :]), 1))
Normalization(lrow) == Max(SumSeq(lrow), 1)

\* what one cell of record lrow adds: 1 or 1.0 / normalization
Increment(norm, lrow) == IF norm THEN Reciprocal(Normalization(lrow)) ELSE Scale

InitCM ==
    /\ \E s \in Shapes(MaxCells) :
          /\ labels \in Matrices(s[1], s[2], {0, 1})
          /\ outputs \in Matrices(s[1], s[2], {0, 1})
    /\ normalize \in BOOLEAN
    /\ weights = <<>>
    /\ classes = <<>>
    /\ sinus_rhythm = ""
    /\ pc = "cm_call"
    /\ i = 0
    /\ A = Unbound
    /\ sinus_rhythm_index = Unbound
    /\ observed_score = Unbound
    /\ correct_score = Unbound
    /\ inactive_score = Unbound
    /\ result = Unbound
    /\ NoMore

\* A = np.zeros((num_classes, 2, 2))
CMBegin ==
    /\ pc = "cm_call"
    /\ A' = Zeros22(NumClasses(labels))
    /\ i' = 1
    /\ pc' = "cm_loop"
    /\ UNCHANGED <<more, labels, outputs, normalize, weights, classes, sinus_rhythm,
                   sinus_rhythm_index, observed_score, correct_score, inactive_score, result>>

\* one iteration of "for i in range(num_recordings)"
CMRecord ==
    /\ pc = "cm_loop"
    /\ i <= NumRecordings(labels)
    /\ LET row == CMRow(A, labels[i], outputs[i], Increment(normalize, labels[i]), 1)
       IN  IF row # ValueError
           THEN /\ A' = row
                /\ i' = i + 1
                /\ pc' = "cm_loop"
           ELSE /\ pc' = "ValueError"
                /\ UNCHANGED <<A, i>>
    /\ UNCHANGED <<more, labels, outputs, normalize, weights, classes, sinus_rhythm,
                   sinus_rhythm_index, observed_score, correct_score, inactive_score, result>>

\* return A
CMReturn ==
    /\ pc = "cm_loop"
    /\ i > NumRecordings(labels)
    /\ result' = Bound(A)
    /\ pc' = "done"
    /\ UNCHANGED <<more, labels, outputs, normalize, weights, classes, sinus_rhythm, i, A,
                   sinus_rhythm_index, observed_score, correct_score, inactive_score>>

NextCM == CMBegin \/ CMRecord \/ CMReturn

SpecCM == InitCM /\ [][NextCM]_vars

\* ------------------------------------------------------------------ claims on _compute_confusion_matrices
\* number of records r with labels[r][k] = l and outputs[r][k] = o
CountCells(k, l, o) ==
    Cardinality({r \in 1..NumRecordings(labels) : labels[r][k] = l /\ outputs[r][k] = o})

\* sum of f[x] over the x in S
RECURSIVE SumOver(_, _)
SumOver(f, S) ==
    IF S = {} THEN 0
    ELSE LET x == CHOOSE y \in S : TRUE IN f[x] + SumOver(f, S \ {x})

\* number of true labels of record r
NumTrue(r) == Cardinality({c \in 1..NumClasses(labels) : labels[r][c] = 1})

\* C1: in non-normalized mode the returned A has shape (C,2,2) and, for every
\* class k, A[k][0][0] = #(L=0,B=0), A[k][0][1] = #(L=1,B=0), A[k][1][0] =
\* #(L=0,B=1) and A[k][1][1] = #(L=1,B=1), counted over all R records.
C1_Counts ==
    (pc = "done" /\ ~normalize) =>
        LET a == Val(result) IN
        /\ DOMAIN a = 1..NumClasses(labels)
        /\ \A k \in DOMAIN a :
              /\ DOMAIN a[k] = 0..1
              /\ \A o \in 0..1 : DOMAIN a[k][o] = 0..1
              /\ a[k][0][0] = Scale * CountCells(k, 0, 0)
              /\ a[k][0][1] = Scale * CountCells(k, 1, 0)
              /\ a[k][1][0] = Scale * CountCells(k, 0, 1)
              /\ a[k][1][1] = Scale * CountCells(k, 1, 1)

\* a finished non-normalized call on at least two classes where wrong and right
\* predictions of both kinds occur
C1_Witness ==
    /\ pc = "done" /\ ~normalize
    /\ NumClasses(labels) >= 2
    /\ CountCells(1, 1, 1) >= 1 /\ CountCells(1, 0, 1) >= 1
    /\ CountCells(2, 1, 0) >= 1 /\ CountCells(2, 0, 0) >= 1

\* C2: in non-normalized mode the four cells of every class sum to the number
\* of records processed (R at the end), and the ValueError branch is never
\* reached on 0/1 matrices.
C2_CellsSumToR ==
    /\ pc # "ValueError"
    /\ (pc \in {"cm_loop", "done"} /\ ~normalize) =>
          \A k \in 1..NumClasses(labels) :
              A[k][0][0] + A[k][0][1] + A[k][1][0] + A[k][1][1] = Scale * (i - 1)
    /\ pc = "done" => i - 1 = NumRecordings(labels)

\* a finished non-normalized call on several records and classes
C2_Witness ==
    /\ pc = "done" /\ ~normalize
    /\ NumRecordings(labels) >= 2 /\ NumClasses(labels) >= 2
    /\ \E r \in 1..NumRecordings(labels) : labels[r] # outputs[r]

\* the weight of record r in normalized mode
NormWeight(r) == Scale \div Max(NumTrue(r), 1)

\* C3: in normalized mode every record r adds, for every class j, exactly
\* 1/norm_r to the one cell selected by (labels[r][j], outputs[r][j]), with
\* norm_r = max(number of true labels of r, 1), independent of the outputs.
C3_Normalized ==
    (pc \in {"cm_loop", "done"} /\ normalize) =>
        \A j \in 1..NumClasses(labels) : \A o \in 0..1 : \A l \in 0..1 :
            A[j][o][l] =
                SumOver([r \in 1..(i - 1) |->
                            IF labels[r][j] = l /\ outputs[r][j] = o THEN NormWeight(r) ELSE 0],
                        1..(i - 1))

\* a finished normalized call with a record without any true label and a
\* record with several true labels
C3_Witness ==
    /\ pc = "done" /\ normalize
    /\ \E r \in 1..NumRecordings(labels) : NumTrue(r) = 0 /\ SumSeq(outputs[r]) >= 1
    /\ \E r \in 1..NumRecordings(labels) : NumTrue(r) >= 2

\* ------------------------------------------------------------------ _compute_modified_confusion_matrix
\* np.zeros((num_classes, num_classes)); A[j][k] is Python's A[j-1, k-1]
ZerosCC(C) == [j \in 1..C |-> [k \in 1..C |-> 0]]

\* Python's truth value of an array entry, as in "if labels[i, j]:" and np.any
Truthy(x) == x # 0

\* np.sum(np.any((labels[i, :], outputs[i, :]), axis=0))
RECURSIVE CountAny(_, _)
CountAny(lrow, orow) ==
    IF lrow = <<>> THEN 0
    ELSE (IF Truthy(Head(lrow)) \/ Truthy(Head(orow)) THEN 1 ELSE 0)
         + CountAny(Tail(lrow), Tail(orow))

ModifiedNormalizationLabelsOnly(lrow, orow) == Max(SumSeq(lrow), 1)

ModifiedNormalizationOutputsOnly(lrow, orow) == Max(SumSeq(orow), 1)

ModifiedNormalizationSum(lrow, orow) == Max(SumSeq(lrow) + SumSeq(orow), 1)

\* normalization = float(max(np.sum(np.any((labels[i, :], outputs[i, :]), axis=0)), 1))
ModifiedNormalization(lrow, orow) == Max(CountAny(lrow, orow), 1)

\* for k in range(num_classes): if outputs[i, k]: A[j, k] += 1.0 / normalization
RECURSIVE ModifiedInner(_, _, _, _, _)
ModifiedInner(acc, j, orow, inc, k) ==
    IF k > Len(acc) THEN acc
    ELSE ModifiedInner(IF Truthy(orow[k]) THEN [acc EXCEPT ![j][k] = @ + inc] ELSE acc,
                       j, orow, inc, k + 1)

\* for j in range(num_classes): if labels[i, j]: ...
RECURSIVE ModifiedOuter(_, _, _, _, _)
ModifiedOuter(acc, lrow, orow, inc, j) ==
    IF j > Len(lrow) THEN acc
    ELSE ModifiedOuter(IF Truthy(lrow[j]) THEN ModifiedInner(acc, j, orow, inc, 1) ELSE acc,
                       lrow, orow, inc, j + 1)

\* the body of "for i in range(num_recordings)" for one record; np.any of two
\* rows of different lengths raises ValueError (numpy 1.24 and later)
ModifiedRecord(acc, lrow, orow) ==
    IF Len(lrow) # Len(orow) THEN ValueError
    ELSE ModifiedOuter(acc, lrow, orow, Reciprocal(ModifiedNormalization(lrow, orow)), 1)

\* the records r..R in order
RECURSIVE ModifiedRecords(_, _, _, _)
ModifiedRecords(acc, L, B, r) ==
    IF acc = ValueError \/ r > NumRecordings(L) THEN acc
    ELSE ModifiedRecords(ModifiedRecord(acc, L[r], B[r]), L, B, r + 1)

\* the whole call _compute_modified_confusion_matrix(L, B)
compute_modified_confusion_matrix(L, B) ==
    ModifiedRecords(ZerosCC(NumClasses(L)), L, B, 1)

InitMCM ==
    /\ \E s \in Shapes(MaxCells) :
          /\ labels \in Matrices(s[1], s[2], {0, 1})
          /\ outputs \in Matrices(s[1], s[2], {0, 1})
    /\ normalize = FALSE
    /\ weights = <<>>
    /\ classes = <<>>
    /\ sinus_rhythm = ""
    /\ pc = "mcm_call"
    /\ i = 0
    /\ A = Unbound
    /\ sinus_rhythm_index = Unbound
    /\ observed_score = Unbound
    /\ correct_score = Unbound
    /\ inactive_score = Unbound
    /\ result = Unbound
    /\ NoMore

\* A = np.zeros((num_classes, num_classes))
MCMBegin ==
    /\ pc = "mcm_call"
    /\ A' = ZerosCC(NumClasses(labels))
    /\ i' = 1
    /\ pc' = "mcm_loop"
    /\ UNCHANGED <<more, labels, outputs, normalize, weights, classes, sinus_rhythm,
                   sinus_rhythm_index, observed_score, correct_score, inactive_score, result>>

\* one iteration of "for i in range(num_recordings)"
MCMRecord ==
    /\ pc = "mcm_loop"
    /\ i <= NumRecordings(labels)
    /\ LET rec == ModifiedRecord(A, labels[i], outputs[i])
       IN  IF rec # ValueError
           THEN /\ A' = rec
                /\ i' = i + 1
                /\ pc' = "mcm_loop"
           ELSE /\ pc' = "ValueError"
                /\ UNCHANGED <<A, i>>
    /\ UNCHANGED <<more, labels, outputs, normalize, weights, classes, sinus_rhythm,
                   sinus_rhythm_index, observed_score, correct_score, inactive_score, result>>

\* return A
MCMReturn ==
    /\ pc = "mcm_loop"
    /\ i > NumRecordings(labels)
    /\ result' = Bound(A)
    /\ pc' = "done"
    /\ UNCHANGED <<more, labels, outputs, normalize, weights, classes, sinus_rhythm, i, A,
                   sinus_rhythm_index, observed_score, correct_score, inactive_score>>

NextMCM == MCMBegin \/ MCMRecord \/ MCMReturn

SpecMCM == InitMCM /\ [][NextMCM]_vars

\* ------------------------------------------------------------------ claims on _compute_modified_confusion_matrix
\* the classes that are true or predicted positive for record r of (L, B)
UnionOf(L, B, r) == {c \in 1..NumClasses(L) : L[r][c] = 1 \/ B[r][c] = 1}

\* 1/norm_r with norm_r = max(|union of true and predicted classes|, 1)
UnionWeight(L, B, r) == Scale \div Max(Cardinality(UnionOf(L, B, r)), 1)

\* the matrix of section 4.2: M[j][k] = sum of 1/norm_r over the records r of
\* Recs with L[r][j] = 1 and B[r][k] = 1
ModifiedSum(L, B, Recs) ==
    [j \in 1..NumClasses(L) |-> [k \in 1..NumClasses(L) |->
        SumOver([r \in Recs |-> IF L[r][j] = 1 /\ B[r][k] = 1 THEN UnionWeight(L, B, r) ELSE 0],
                Recs)]]

\* the records with at least one true and at least one predicted label
Contributing(L, B) ==
    {r \in 1..NumRecordings(L) : SumSeq(L[r]) >= 1 /\ SumSeq(B[r]) >= 1}

\* C4: the returned C x C matrix has M[j][k] = sum over the records r with
\* labels[r][j] = 1 and outputs[r][k] = 1 of 1/norm_r, norm_r = max(size of the
\* union of true and predicted classes of r, 1); records without a true label
\* or without a predicted label contribute nothing.
C4_ModifiedMatrix ==
    /\ pc = "mcm_loop" => A = ModifiedSum(labels, outputs, 1..(i - 1))
    /\ pc = "done" =>
          /\ Val(result) = ModifiedSum(labels, outputs, 1..NumRecordings(labels))
          /\ Val(result) = ModifiedSum(labels, outputs, Contributing(labels, outputs))

\* a finished call with a record whose true and predicted sets differ and
\* overlap, and a record that has no predicted label
C4_Witness ==
    /\ pc = "done"
    /\ \E r \in 1..NumRecordings(labels) :
          /\ Cardinality(UnionOf(labels, outputs, r)) >= 2
          /\ SumSeq(labels[r]) >= 1 /\ SumSeq(outputs[r]) >= 1
          /\ labels[r] # outputs[r]
    /\ \E r \in 1..NumRecordings(labels) : SumSeq(outputs[r]) = 0 /\ SumSeq(labels[r]) >= 1

\* every row of L holds exactly one 1
SingleLabel(L) == \A r \in 1..NumRecordings(L) : SumSeq(L[r]) = 1

\* C5: for L with exactly one 1 per row, the matrix of (L, L) is diagonal and
\* its entry [k][k] is the number of records whose single true label is k.
C5_SingleLabelDiagonal ==
    (pc = "done" /\ outputs = labels /\ SingleLabel(labels)) =>
        \A j \in 1..NumClasses(labels) : \A k \in 1..NumClasses(labels) :
            Val(result)[j][k] =
                IF j = k
                THEN Scale * Cardinality({r \in 1..NumRecordings(labels) : labels[r][k] = 1})
                ELSE 0

\* a finished call on (L, L), L single-label, with two classes in use
C5_Witness ==
    /\ pc = "done" /\ outputs = labels /\ SingleLabel(labels)
    /\ NumRecordings(labels) >= 3
    /\ \E r1, r2 \in 1..NumRecordings(labels) : labels[r1] # labels[r2]

\* ------------------------------------------------------------------ compute_challenge_metric
\* class names the callers' class lists are cut from
ClassNames == <<"AF", "NSR", "PVC", "LBBB", "RBBB", "SB">>

\* a name that is in no class list
MissingName == "IAVB"

\* the elements of a list
Range(seq) == {seq[n] : n \in DOMAIN seq}

\* classes.index(name): the first position holding name
Index(seq, name) == CHOOSE n \in DOMAIN seq : seq[n] = name /\ \A m \in 1..(n - 1) : seq[m] # name

\* the weight matrices drawn: symmetric, one value on the whole diagonal,
\* entries 0.0 or 1.0 (counted in units of 1)
Pairs(C) == {p \in (1..C) \X (1..C) : p[1] < p[2]}
Weights(C) ==
    {[j \in 1..C |-> [k \in 1..C |->
        IF j = k THEN d ELSE IF j < k THEN f[<<j, k>>] ELSE f[<<k, j>>]]] :
     d \in {0, 1}, f \in [Pairs(C) -> {0, 1}]}

\* np.nansum(weights * A): no entry is NaN, every product is summed
RECURSIVE NanSumRow(_, _)
NanSumRow(wrow, arow) ==
    IF wrow = <<>> THEN 0
    ELSE Head(wrow) * Head(arow) + NanSumRow(Tail(wrow), Tail(arow))

RECURSIVE NanSumFrom(_, _, _)
NanSumFrom(W, M, j) ==
    IF j > Len(W) THEN 0 ELSE NanSumRow(W[j], M[j]) + NanSumFrom(W, M, j + 1)

NanSum(W, M) == NanSumFrom(W, M, 1)

CorrectOutputsOnes(L) == [r \in 1..NumRecordings(L) |-> [k \in 1..NumClasses(L) |-> 1]]

\* correct_outputs = labels
CorrectOutputs(L) == L

InactiveOutputsZeros(R, C, index) == [r \in 1..R |-> [k \in 1..C |-> 0]]

\* inactive_outputs = np.zeros((R, C), dtype=bool); inactive_outputs[:, index] = 1
InactiveOutputs(R, C, index) == [r \in 1..R |-> [k \in 1..C |-> IF k = index THEN 1 ELSE 0]]

\* what the division yields when the divisor is 0
ZeroDivisionError == <<>>

\* float(a) / float(b) as the reduced fraction <<num, den>> with den > 0
FloatDiv(a, b) ==
    IF b = 0 THEN ZeroDivisionError
    ELSE LET sa == IF b < 0 THEN -a ELSE a
             sb == IF b < 0 THEN -b ELSE b
             g  == Gcd(IF sa < 0 THEN -sa ELSE sa, sb)
         IN  <<sa \div g, sb \div g>>

\* the float 0.0
Zero == <<0, 1>>

NormalizedScoreNoGuard(observed, correct, inactive) ==
    FloatDiv(observed - inactive, correct - inactive)

NormalizedScoreSwapped(observed, correct, inactive) ==
    IF correct # inactive
    THEN FloatDiv(observed - inactive, inactive - correct)
    ELSE Zero

\* if correct_score != inactive_score: ... else: normalized_score = 0.0
NormalizedScore(observed, correct, inactive) ==
    IF correct # inactive
    THEN FloatDiv(observed - inactive, correct - inactive)
    ELSE Zero

InitCh ==
    /\ \E s \in Shapes(MaxCellsW) :
          /\ labels \in Matrices(s[1], s[2], {0, 1})
          /\ outputs \in Matrices(s[1], s[2], {0, 1})
          /\ weights \in Weights(s[2])
          /\ classes = SubSeq(ClassNames, 1, s[2])
    /\ sinus_rhythm \in Range(classes) \cup {MissingName}
    /\ normalize = FALSE
    /\ pc = "ch_call"
    /\ i = 0
    /\ A = Unbound
    /\ sinus_rhythm_index = Unbound
    /\ observed_score = Unbound
    /\ correct_score = Unbound
    /\ inactive_score = Unbound
    /\ result = Unbound
    /\ NoMore

ChCheckDefaultsToFirst ==
    /\ pc = "ch_call"
    /\ sinus_rhythm_index' =
          Bound(IF sinus_rhythm \in Range(classes) THEN Index(classes, sinus_rhythm) ELSE 1)
    /\ pc' = "ch_observed"
    /\ UNCHANGED <<more, labels, outputs, normalize, weights, classes, sinus_rhythm, i, A,
                   observed_score, correct_score, inactive_score, result>>

\* if sinus_rhythm in classes: sinus_rhythm_index = ... else: raise ValueError
ChCheck ==
    /\ pc = "ch_call"
    /\ IF sinus_rhythm \in Range(classes)
       THEN /\ sinus_rhythm_index' = Bound(Index(classes, sinus_rhythm))
            /\ pc' = "ch_observed"
       ELSE /\ pc' = "ValueError"
            /\ UNCHANGED sinus_rhythm_index
    /\ UNCHANGED <<more, labels, outputs, normalize, weights, classes, sinus_rhythm, i, A,
                   observed_score, correct_score, inactive_score, result>>

\* the observed score
ChObserved ==
    /\ pc = "ch_observed"
    /\ A' = compute_modified_confusion_matrix(labels, outputs)
    /\ observed_score' = Bound(NanSum(weights, A'))
    /\ pc' = "ch_correct"
    /\ UNCHANGED <<more, labels, outputs, normalize, weights, classes, sinus_rhythm, i,
                   sinus_rhythm_index, correct_score, inactive_score, result>>

\* the score of the model that always chooses the correct label(s)
ChCorrect ==
    /\ pc = "ch_correct"
    /\ A' = compute_modified_confusion_matrix(labels, CorrectOutputs(labels))
    /\ correct_score' = Bound(NanSum(weights, A'))
    /\ pc' = "ch_inactive"
    /\ UNCHANGED <<more, labels, outputs, normalize, weights, classes, sinus_rhythm, i,
                   sinus_rhythm_index, observed_score, inactive_score, result>>

ZerosArrayViewOfOutputs == "outputs"

\* the array object np.zeros(...) returns: a new one, no view of an argument
ZerosArray == "fresh"

\* the score of the model that always chooses the sinus rhythm class; the
\* write inactive_outputs[:, sinus_rhythm_index] = 1 goes to the array object
\* that np.zeros returned
ChInactive ==
    /\ pc = "ch_inactive"
    /\ LET inactive_outputs == InactiveOutputs(NumRecordings(labels), NumClasses(labels),
                                               Val(sinus_rhythm_index))
       IN  /\ labels' = IF ZerosArray = "labels" THEN inactive_outputs ELSE labels
           /\ outputs' = IF ZerosArray = "outputs" THEN inactive_outputs ELSE outputs
           /\ A' = compute_modified_confusion_matrix(labels', inactive_outputs)
    /\ inactive_score' = Bound(NanSum(weights, A'))
    /\ pc' = "ch_normalize"
    /\ UNCHANGED <<more, normalize, weights, classes, sinus_rhythm, i,
                   sinus_rhythm_index, observed_score, correct_score, result>>

\* normalized_score = ...; return normalized_score
ChNormalize ==
    /\ pc = "ch_normalize"
    /\ LET normalized_score ==
               NormalizedScore(Val(observed_score), Val(correct_score), Val(inactive_score))
       IN  IF normalized_score = ZeroDivisionError
           THEN /\ pc' = "ZeroDivisionError"
                /\ UNCHANGED result
           ELSE /\ result' = Bound(normalized_score)
                /\ pc' = "done"
    /\ UNCHANGED <<more, labels, outputs, normalize, weights, classes, sinus_rhythm, i, A,
                   sinus_rhythm_index, observed_score, correct_score, inactive_score>>

NextCh == ChCheck \/ ChObserved \/ ChCorrect \/ ChInactive \/ ChNormalize

SpecCh == InitCh /\ [][NextCh]_vars

\* ------------------------------------------------------------------ claims on compute_challenge_metric
AllRecords == 1..NumRecordings(labels)

\* sum of W[j][k] * M[j][k] over all pairs (j, k)
WeightedSum(W, M) ==
    LET P == (1..Len(W)) \X (1..Len(W))
    IN  SumOver([p \in P |-> W[p[1]][p[2]] * M[p[1]][p[2]]], P)

\* D: only the default class is predicted, for every record
DefaultOnly ==
    [r \in AllRecords |-> [k \in 1..NumClasses(labels) |->
        IF classes[k] = sinus_rhythm THEN 1 ELSE 0]]

\* the three scores of section 4.5, in units of 1/Scale
Observed == WeightedSum(weights, ModifiedSum(labels, outputs, AllRecords))
Perfect == WeightedSum(weights, ModifiedSum(labels, labels, AllRecords))
Baseline == WeightedSum(weights, ModifiedSum(labels, DefaultOnly, AllRecords))

\* numerator and denominator of the returned score
ScoreNum == Val(result)[1]
ScoreDen == Val(result)[2]

\* C6: the returned score is (observed - baseline) / (perfect - baseline) when
\* perfect # baseline and exactly 0.0 when perfect = baseline; the division
\* never has a zero divisor.
C6_Score ==
    /\ pc # "ZeroDivisionError"
    /\ pc = "done" =>
          IF Perfect # Baseline
          THEN /\ ScoreDen > 0
               /\ ScoreNum * (Perfect - Baseline) = ScoreDen * (Observed - Baseline)
          ELSE Val(result) = Zero

\* a returned score that is a proper fraction strictly between 0 and 1
C6_Witness ==
    /\ pc = "done"
    /\ Perfect # Baseline
    /\ 0 < ScoreNum /\ ScoreNum < ScoreDen

\* C7: with the ground truth as prediction the score is 1.0 whenever the
\* perfect score differs from the baseline score.
C7_TruthScoresOne ==
    (pc = "done" /\ outputs = labels /\ Perfect # Baseline) => Val(result) = <<1, 1>>

\* a returned score for B = L on several records, one of them multi-label
C7_Witness ==
    /\ pc = "done" /\ outputs = labels /\ Perfect # Baseline
    /\ NumRecordings(labels) >= 2
    /\ \E r \in AllRecords : SumSeq(labels[r]) >= 2

\* C8: with D (only the default class, for every record) as prediction the
\* score is 0.0, also when perfect = baseline.
C8_BaselineScoresZero ==
    (pc = "done" /\ outputs = DefaultOnly) => Val(result) = Zero

\* a returned score for B = D where the baseline earns credit and is not optimal
C8_Witness ==
    /\ pc = "done" /\ outputs = DefaultOnly
    /\ Baseline > 0 /\ Perfect # Baseline

\* every weight is 0 or 1 in the model; the diagonal is 1
UnitDiagonal == \A j \in DOMAIN weights : weights[j][j] = 1

\* C9 as stated: for W in [0,1] with 1 on the diagonal the score is in [0,1]
\* unless observed < baseline, and observed never exceeds perfect.
C9_Original ==
    (pc = "done" /\ UnitDiagonal) =>
        /\ (0 <= ScoreNum /\ ScoreNum <= ScoreDen) \/ Observed < Baseline
        /\ Observed <= Perfect

\* C9 amended: for W in [0,1] with 1 on the diagonal, perfect >= baseline; the
\* score is below 0 only when observed < baseline and above 1 only when
\* observed > perfect (which happens), and when perfect > baseline it is below
\* 0 exactly when observed < baseline and above 1 exactly when observed > perfect.
C9_Amended ==
    (pc = "done" /\ UnitDiagonal) =>
        /\ Perfect >= Baseline
        /\ ScoreNum < 0 => Observed < Baseline
        /\ ScoreNum > ScoreDen => Observed > Perfect
        /\ Perfect > Baseline =>
              /\ Observed < Baseline => ScoreNum < 0
              /\ Observed > Perfect => ScoreNum > ScoreDen

\* a returned score above 1.0 under a unit-diagonal weight matrix
C9_Witness ==
    /\ pc = "done" /\ UnitDiagonal
    /\ ScoreNum > ScoreDen

\* C10: when the default class is not in classes the call ends in ValueError
\* straight from the membership test: no modified confusion matrix, no score
\* and no result exists; and ValueError arises in no other case.
C10_RaisesFirst ==
    /\ sinus_rhythm \notin Range(classes) =>
          /\ pc \in {"ch_call", "ValueError"}
          /\ A = Unbound
          /\ observed_score = Unbound
          /\ correct_score = Unbound
          /\ inactive_score = Unbound
          /\ result = Unbound
    /\ pc = "ValueError" => sinus_rhythm \notin Range(classes)

\* a call that raised ValueError
C10_Witness ==
    /\ pc = "ValueError"
    /\ NumClasses(labels) >= 2

\* ------------------------------------------------------------------ float values of the metrics
\* A metric is a reduced fraction <<num, den>> with den > 0, or NaN.
NaN == <<0, 0>>
IsNaN(x) == x[2] = 0

\* x + y, x - y, x * y on floats: NaN in, NaN out
RatAdd(x, y) == IF IsNaN(x) \/ IsNaN(y) THEN NaN ELSE FloatDiv(x[1] * y[2] + y[1] * x[2], x[2] * y[2])
RatSub(x, y) == IF IsNaN(x) \/ IsNaN(y) THEN NaN ELSE FloatDiv(x[1] * y[2] - y[1] * x[2], x[2] * y[2])
RatMul(x, y) == IF IsNaN(x) \/ IsNaN(y) THEN NaN ELSE FloatDiv(x[1] * y[1], x[2] * y[2])

\* np.zeros(num_classes)
ZerosC(C) == [n \in 1..C |-> Zero]

\* the entries of arr that are not NaN: their sum and their number
RECURSIVE FiniteSum(_)
FiniteSum(arr) ==
    IF arr = <<>> THEN Zero
    ELSE IF IsNaN(Head(arr)) THEN FiniteSum(Tail(arr))
    ELSE RatAdd(Head(arr), FiniteSum(Tail(arr)))

RECURSIVE FiniteCount(_)
FiniteCount(arr) ==
    IF arr = <<>> THEN 0
    ELSE (IF IsNaN(Head(arr)) THEN 0 ELSE 1) + FiniteCount(Tail(arr))

NanMeanZeroFill(arr) ==
    IF FiniteCount(arr) = 0 THEN NaN
    ELSE RatMul(FiniteSum(arr), <<1, Len(arr)>>)

\* np.nanmean(arr): the mean of the entries that are not NaN, NaN if there is none
NanMean(arr) ==
    IF FiniteCount(arr) = 0 THEN NaN
    ELSE RatMul(FiniteSum(arr), <<1, FiniteCount(arr)>>)

\* if np.any(np.isfinite(arr)): np.nanmean(arr) else: float("nan")
MacroAverage(arr) ==
    IF \E n \in DOMAIN arr : ~IsNaN(arr[n]) THEN NanMean(arr) ELSE NaN

\* ------------------------------------------------------------------ _compute_accuracy
RowAnyEqual(lrow, orow) == \E j \in 1..Len(lrow) : lrow[j] = orow[j]

\* np.all(labels[i, :] == outputs[i, :])
RowEqual(lrow, orow) == \A j \in 1..Len(lrow) : lrow[j] = orow[j]

\* num_correct_recordings = 0
AccBegin ==
    /\ pc = "acc_call"
    /\ num_correct_recordings' = Bound(0)
    /\ i' = 1
    /\ pc' = "acc_loop"
    /\ UNCHANGED <<labels, outputs, normalize, weights, classes, sinus_rhythm, A,
                   sinus_rhythm_index, observed_score, correct_score, inactive_score, result,
                   scalar_pred, class_k, f_measure, auroc, auprc, locals, entry, rest>>

\* one iteration of "for i in range(num_recordings)"
AccRecord ==
    /\ pc = "acc_loop"
    /\ i <= NumRecordings(labels)
    /\ num_correct_recordings' =
          IF RowEqual(labels[i], outputs[i])
          THEN Bound(Val(num_correct_recordings) + 1)
          ELSE num_correct_recordings
    /\ i' = i + 1
    /\ UNCHANGED <<labels, outputs, normalize, weights, classes, sinus_rhythm, pc, A,
                   sinus_rhythm_index, observed_score, correct_score, inactive_score, result,
                   scalar_pred, class_k, f_measure, auroc, auprc, locals, entry, rest>>

\* return float(num_correct_recordings) / float(num_recordings)
AccReturn ==
    /\ pc = "acc_loop"
    /\ i > NumRecordings(labels)
    /\ result' = Bound(FloatDiv(Val(num_correct_recordings), NumRecordings(labels)))
    /\ pc' = "acc_done"
    /\ UNCHANGED <<labels, outputs, normalize, weights, classes, sinus_rhythm, i, A,
                   sinus_rhythm_index, observed_score, correct_score, inactive_score,
                   scalar_pred, class_k, num_correct_recordings, f_measure, auroc, auprc,
                   locals, entry, rest>>

NextAcc == AccBegin \/ AccRecord \/ AccReturn

\* the whole call _compute_accuracy(L, B)
RECURSIVE CountCorrect(_, _, _)
CountCorrect(L, B, r) ==
    IF r > NumRecordings(L) THEN 0
    ELSE (IF RowEqual(L[r], B[r]) THEN 1 ELSE 0) + CountCorrect(L, B, r + 1)

compute_accuracy(L, B) == FloatDiv(CountCorrect(L, B, 1), NumRecordings(L))

\* ------------------------------------------------------------------ _compute_f_measure
\* the records r..R of _compute_confusion_matrices in order
RECURSIVE CMRecords(_, _, _, _, _)
CMRecords(acc, L, B, norm, r) ==
    IF acc = ValueError \/ r > NumRecordings(L) THEN acc
    ELSE CMRecords(CMRow(acc, L[r], B[r], Increment(norm, L[r]), 1), L, B, norm, r + 1)

\* the whole call _compute_confusion_matrices(L, B, normalize)
compute_confusion_matrices(L, B, norm) == CMRecords(Zeros22(NumClasses(L)), L, B, norm, 1)

FMeasureOfZeroFill(tp, fp, fn) ==
    IF 2 * tp + fp + fn # 0 THEN FloatDiv(2 * tp, 2 * tp + fp + fn) ELSE Zero

FMeasureOfJaccard(tp, fp, fn) ==
    IF tp + fp + fn # 0 THEN FloatDiv(tp, tp + fp + fn) ELSE NaN

FMeasureOfNeedsTP(tp, fp, fn) ==
    IF tp # 0 THEN FloatDiv(2 * tp, 2 * tp + fp + fn) ELSE NaN

\* if 2 * tp + fp + fn: f_measure[k] = float(2 * tp) / float(2 * tp + fp + fn) else: nan
FMeasureOf(tp, fp, fn) ==
    IF 2 * tp + fp + fn # 0 THEN FloatDiv(2 * tp, 2 * tp + fp + fn) ELSE NaN

\* A = _compute_confusion_matrices(labels, outputs); f_measure = np.zeros(num_classes)
FConfusion ==
    /\ pc = "f_call"
    /\ LET a == compute_confusion_matrices(labels, outputs, FALSE)
       IN  IF a = ValueError
           THEN /\ pc' = "ValueError"
                /\ UNCHANGED <<A, f_measure, class_k>>
           ELSE /\ A' = a
                /\ f_measure' = Bound(ZerosC(NumClasses(labels)))
                /\ class_k' = 1
                /\ pc' = "f_loop"
    /\ UNCHANGED <<labels, outputs, normalize, weights, classes, sinus_rhythm, i,
                   sinus_rhythm_index, observed_score, correct_score, inactive_score, result,
                   scalar_pred, num_correct_recordings, auroc, auprc, locals, entry, rest>>

\* one iteration of "for k in range(num_classes)"
FClass ==
    /\ pc = "f_loop"
    /\ class_k <= NumClasses(labels)
    /\ f_measure' = Bound([Val(f_measure) EXCEPT ![class_k] =
                              FMeasureOf(A[class_k][1][1], A[class_k][1][0], A[class_k][0][1])])
    /\ class_k' = class_k + 1
    /\ UNCHANGED <<labels, outputs, normalize, weights, classes, sinus_rhythm, pc, i, A,
                   sinus_rhythm_index, observed_score, correct_score, inactive_score, result,
                   scalar_pred, num_correct_recordings, auroc, auprc, locals, entry, rest>>

\* macro_f_measure = ...; return macro_f_measure, f_measure
FReturn ==
    /\ pc = "f_loop"
    /\ class_k > NumClasses(labels)
    /\ result' = Bound(<<MacroAverage(Val(f_measure)), Val(f_measure)>>)
    /\ pc' = "f_done"
    /\ UNCHANGED <<labels, outputs, normalize, weights, classes, sinus_rhythm, i, A,
                   sinus_rhythm_index, observed_score, correct_score, inactive_score,
                   scalar_pred, class_k, num_correct_recordings, f_measure, auroc, auprc,
                   locals, entry, rest>>

NextF == FConfusion \/ FClass \/ FReturn

\* the whole call _compute_f_measure(L, B), given its confusion matrices a
FMeasureClasses(a) ==
    [n \in DOMAIN a |-> FMeasureOf(a[n][1][1], a[n][1][0], a[n][0][1])]

compute_f_measure(L, B) ==
    LET a == compute_confusion_matrices(L, B, FALSE)
    IN  IF a = ValueError THEN ValueError
        ELSE <<MacroAverage(FMeasureClasses(a)), FMeasureClasses(a)>>

\* ------------------------------------------------------------------ _compute_auc
\* the scores are the integers 0..ScoreLevels
ScoreLevels == 2
MaxCellsS == 4

ColumnFirst(m, n) == [r \in 1..Len(m) |-> m[r][1]]

\* labels[:, k], outputs[:, k]
Column(m, n) == [r \in 1..Len(m) |-> m[r][n]]

SetMax(S) == CHOOSE x \in S : \A y \in S : y <= x

\* the elements of S from the largest to the smallest
RECURSIVE Descending(_)
Descending(S) == IF S = {} THEN <<>> ELSE <<SetMax(S)>> \o Descending(S \ {SetMax(S)})

ThresholdsSentinelMax(out) ==
    LET u == {out[r] : r \in DOMAIN out} IN <<SetMax(u)>> \o Descending(u)

\* np.unique(out), with thresholds[-1] + 1 appended, reversed
Thresholds(out) ==
    LET u == {out[r] : r \in DOMAIN out} IN <<SetMax(u) + 1>> \o Descending(u)

RecordOrders(R) == {p \in [1..R -> 1..R] : \A a, b \in 1..R : p[a] = p[b] => a = b}

\* np.argsort(out)[::-1]: some order of the records by descending score; the
\* sort is not stable, so records of equal score come in any order
SortOrders(out) ==
    {idx \in RecordOrders(Len(out)) :
        \A a, b \in 1..Len(out) : a < b => out[idx[a]] >= out[idx[b]]}

\* tp[0], fp[0], fn[0], tn[0] and i = 0 (here the 1-based position in idx)
FirstCounts(lab) ==
    [tp |-> 0, fp |-> 0,
     fn |-> Cardinality({r \in DOMAIN lab : lab[r] = 1}),
     tn |-> Cardinality({r \in DOMAIN lab : lab[r] = 0}),
     i |-> 1]

AbsorbRecordNoDecrement(c, lab, idx) ==
    IF lab[idx[c.i]] # 0
    THEN [c EXCEPT !.tp = @ + 1, !.i = @ + 1]
    ELSE [c EXCEPT !.fp = @ + 1, !.i = @ + 1]

\* the body of the while loop: record idx[i] moves from FN to TP or from TN to FP
AbsorbRecord(c, lab, idx) ==
    IF lab[idx[c.i]] # 0
    THEN [c EXCEPT !.tp = @ + 1, !.fn = @ - 1, !.i = @ + 1]
    ELSE [c EXCEPT !.fp = @ + 1, !.tn = @ - 1, !.i = @ + 1]

AbsorbOne(c, lab, out, idx, th) ==
    IF c.i <= Len(out) /\ out[idx[c.i]] >= th THEN AbsorbRecord(c, lab, idx) ELSE c

\* while i < num_recordings and outputs[idx[i], k] >= thresholds[j]
RECURSIVE Absorb(_, _, _, _, _)
Absorb(c, lab, out, idx, th) ==
    IF c.i <= Len(out) /\ out[idx[c.i]] >= th
    THEN Absorb(AbsorbRecord(c, lab, idx), lab, out, idx, th)
    ELSE c

\* for j in range(1, num_thresholds): the counts at thresholds j.. after those in cs
RECURSIVE Sweep(_, _, _, _, _, _)
Sweep(cs, lab, out, idx, ths, j) ==
    IF j > Len(ths) THEN cs
    ELSE Sweep(Append(cs, Absorb(cs[j - 1], lab, out, idx, ths[j])), lab, out, idx, ths, j + 1)

\* the counts of one class at every threshold
ThresholdCounts(lab, out, idx) == Sweep(<<FirstCounts(lab)>>, lab, out, idx, Thresholds(out), 2)

TnrOneWithoutNegatives(c) == IF c.fp + c.tn # 0 THEN FloatDiv(c.tn, c.fp + c.tn) ELSE <<1, 1>>

\* tpr[j], tnr[j], ppv[j]
Tpr(c) == IF c.tp + c.fn # 0 THEN FloatDiv(c.tp, c.tp + c.fn) ELSE NaN

Tnr(c) == IF c.fp + c.tn # 0 THEN FloatDiv(c.tn, c.fp + c.tn) ELSE NaN

Ppv(c) == IF c.tp + c.fp # 0 THEN FloatDiv(c.tp, c.tp + c.fp) ELSE NaN

RECURSIVE AurocFromRectangles(_, _)
AurocFromRectangles(cs, j) ==
    IF j >= Len(cs) THEN Zero
    ELSE RatAdd(RatMul(RatSub(Tpr(cs[j + 1]), Tpr(cs[j])), Tnr(cs[j + 1])),
                AurocFromRectangles(cs, j + 1))

\* auroc[k] += 0.5 * (tpr[j + 1] - tpr[j]) * (tnr[j + 1] + tnr[j]), for j..
RECURSIVE AurocFrom(_, _)
AurocFrom(cs, j) ==
    IF j >= Len(cs) THEN Zero
    ELSE RatAdd(RatMul(RatMul(<<1, 2>>, RatSub(Tpr(cs[j + 1]), Tpr(cs[j]))),
                       RatAdd(Tnr(cs[j + 1]), Tnr(cs[j]))),
                AurocFrom(cs, j + 1))

RECURSIVE AuprcFromPrevious(_, _)
AuprcFromPrevious(cs, j) ==
    IF j >= Len(cs) THEN Zero
    ELSE RatAdd(RatMul(RatSub(Tpr(cs[j + 1]), Tpr(cs[j])), Ppv(cs[j])),
                AuprcFromPrevious(cs, j + 1))

\* auprc[k] += (tpr[j + 1] - tpr[j]) * ppv[j + 1], for j..
RECURSIVE AuprcFrom(_, _)
AuprcFrom(cs, j) ==
    IF j >= Len(cs) THEN Zero
    ELSE RatAdd(RatMul(RatSub(Tpr(cs[j + 1]), Tpr(cs[j])), Ppv(cs[j + 1])),
                AuprcFrom(cs, j + 1))

\* auroc[k] and auprc[k] of one class, under the sort order idx
ClassAuroc(lab, out, idx) == AurocFrom(ThresholdCounts(lab, out, idx), 1)

ClassAuprc(lab, out, idx) == AuprcFrom(ThresholdCounts(lab, out, idx), 1)

\* auroc = np.zeros(num_classes); auprc = np.zeros(num_classes)
AucBegin ==
    /\ pc = "auc_call"
    /\ auroc' = Bound(ZerosC(NumClasses(labels)))
    /\ auprc' = Bound(ZerosC(NumClasses(labels)))
    /\ class_k' = 1
    /\ pc' = "auc_loop"
    /\ UNCHANGED <<labels, outputs, normalize, weights, classes, sinus_rhythm, i, A,
                   sinus_rhythm_index, observed_score, correct_score, inactive_score, result,
                   scalar_pred, num_correct_recordings, f_measure, locals, entry, rest>>

\* one iteration of "for k in range(num_classes)"
AucClass ==
    /\ pc = "auc_loop"
    /\ class_k <= NumClasses(labels)
    /\ \E idx \in SortOrders(Column(scalar_pred, class_k)) :
          /\ auroc' = Bound([Val(auroc) EXCEPT ![class_k] =
                ClassAuroc(Column(labels, class_k), Column(scalar_pred, class_k), idx)])
          /\ auprc' = Bound([Val(auprc) EXCEPT ![class_k] =
                ClassAuprc(Column(labels, class_k), Column(scalar_pred, class_k), idx)])
    /\ class_k' = class_k + 1
    /\ UNCHANGED <<labels, outputs, normalize, weights, classes, sinus_rhythm, pc, i, A,
                   sinus_rhythm_index, observed_score, correct_score, inactive_score, result,
                   scalar_pred, num_correct_recordings, f_measure, locals, entry, rest>>

\* return macro_auroc, macro_auprc, auroc, auprc
AucReturn ==
    /\ pc = "auc_loop"
    /\ class_k > NumClasses(labels)
    /\ result' = Bound(<<MacroAverage(Val(auroc)), MacroAverage(Val(auprc)),
                         Val(auroc), Val(auprc)>>)
    /\ pc' = "auc_done"
    /\ UNCHANGED <<labels, outputs, normalize, weights, classes, sinus_rhythm, i, A,
                   sinus_rhythm_index, observed_score, correct_score, inactive_score,
                   scalar_pred, class_k, num_correct_recordings, f_measure, auroc, auprc,
                   locals, entry, rest>>

NextAuc == AucBegin \/ AucClass \/ AucReturn

\* ------------------------------------------------------------------ the metric functions together
\* a call of _compute_accuracy or _compute_f_measure on binary predictions, or
\* a call of _compute_auc on scalar predictions
InitMetrics ==
    /\ \/ /\ \E s \in Shapes(MaxCells) :
                /\ labels \in Matrices(s[1], s[2], {0, 1})
                /\ outputs \in Matrices(s[1], s[2], {0, 1})
          /\ scalar_pred = <<>>
          /\ pc \in {"acc_call", "f_call"}
       \/ /\ \E s \in Shapes(MaxCellsS) :
                /\ labels \in Matrices(s[1], s[2], {0, 1})
                /\ scalar_pred \in Matrices(s[1], s[2], 0..ScoreLevels)
          /\ outputs = <<>>
          /\ pc = "auc_call"
    /\ normalize = FALSE
    /\ weights = <<>>
    /\ classes = <<>>
    /\ sinus_rhythm = ""
    /\ i = 0
    /\ A = <<>>
    /\ sinus_rhythm_index = Unbound
    /\ observed_score = Unbound
    /\ correct_score = Unbound
    /\ inactive_score = Unbound
    /\ result = Unbound
    /\ class_k = 0
    /\ num_correct_recordings = Unbound
    /\ f_measure = Unbound
    /\ auroc = Unbound
    /\ auprc = Unbound
    /\ locals = <<>>
    /\ entry = ""
    /\ NoRest

NextMetrics == NextAcc \/ NextF \/ NextAuc

SpecMetrics == InitMetrics /\ [][NextMetrics]_vars

\* ------------------------------------------------------------------ claims on accuracy and F-measure
\* the scenario L=[[1,0],[0,1]], B=[[1,0],[1,0]] of classes ["N","A"]
Scenario ==
    /\ labels = <<<<1, 0>>, <<0, 1>>>>
    /\ outputs = <<<<1, 0>>, <<1, 0>>>>

\* the records whose whole predicted row equals the whole true row
ExactMatches == {r \in 1..NumRecordings(labels) : labels[r] = outputs[r]}

C17_FMeasure ==
    (pc = "f_done") =>
        /\ \A n \in 1..NumClasses(labels) :
              LET TP == CountCells(n, 1, 1)
                  FP == CountCells(n, 0, 1)
                  FN == CountCells(n, 1, 0)
                  f  == Val(result)[2][n]
              IN  /\ IsNaN(f) <=> (TP = 0 /\ FP = 0 /\ FN = 0)
                  /\ IsNaN(f) <=> (\A r \in 1..NumRecordings(labels) :
                                       labels[r][n] = 0 /\ outputs[r][n] = 0)
                  /\ ~IsNaN(f) => f[1] * (2 * TP + FP + FN) = f[2] * (2 * TP)
        /\ (labels = <<<<0>>>> /\ outputs = <<<<0>>>>) => Val(result)[2] = <<NaN>>

\* a call returned NaN for a class nobody has and a proper fraction for another
C17_Witness ==
    /\ pc = "f_done"
    /\ \E n, m \in 1..NumClasses(labels) :
          /\ IsNaN(Val(result)[2][n])
          /\ CountCells(n, 1, 1) + CountCells(n, 0, 1) + CountCells(n, 1, 0) = 0
          /\ Val(result)[2][m] = <<2, 3>>

\* C18 as stated: in the scenario class "N" has TP=2, FP=0, FN=0, TN=0 and F1 1.0
C18_Original ==
    (pc = "f_done" /\ Scenario) =>
        /\ A[1][1][1] = 2 * Scale
        /\ A[1][1][0] = 0
        /\ A[1][0][1] = 0
        /\ A[1][0][0] = 0
        /\ Val(result)[2][1] = <<1, 1>>

\* C18: in the scenario class "N" (true for record 0, predicted for both) has
\* TP=1, FP=1, FN=0, TN=0 and its F1 is 2/3.
C18_Amended ==
    (pc = "f_done" /\ Scenario) =>
        /\ A[1][1][1] = 1 * Scale
        /\ A[1][1][0] = 1 * Scale
        /\ A[1][0][1] = 0
        /\ A[1][0][0] = 0
        /\ Val(result)[2][1] = <<2, 3>>

\* the scenario's F-measure has been returned, with class "N" predicted twice
C18_Witness ==
    /\ pc = "f_done"
    /\ Scenario
    /\ CountCells(1, 1, 1) + CountCells(1, 0, 1) = 2

\* C19 as stated: in the scenario class "A" has TP=0, FP=0, FN=1, TN=1 and F1 NaN
C19_Original ==
    (pc = "f_done" /\ Scenario) =>
        /\ A[2][1][1] = 0
        /\ A[2][1][0] = 0
        /\ A[2][0][1] = 1 * Scale
        /\ A[2][0][0] = 1 * Scale
        /\ IsNaN(Val(result)[2][2])

\* C19: in the scenario class "A" (true for record 1, never predicted) has
\* TP=0, FP=0, FN=1, TN=1 and its F1 is 0.0: the denominator is FN = 1.
C19_Amended ==
    (pc = "f_done" /\ Scenario) =>
        /\ A[2][1][1] = 0
        /\ A[2][1][0] = 0
        /\ A[2][0][1] = 1 * Scale
        /\ A[2][0][0] = 1 * Scale
        /\ Val(result)[2][2] = Zero

\* the scenario's F-measure has been returned, with class "A" missed once
C19_Witness ==
    /\ pc = "f_done"
    /\ Scenario
    /\ CountCells(2, 1, 0) = 1
    /\ CountCells(2, 1, 1) = 0

\* ------------------------------------------------------------------ claims on the ranking metrics
\* the whole call _compute_auc(L, S) when the sort of class n gives the order ord[n]
compute_auc(L, S, ord) ==
    LET roc == [n \in 1..NumClasses(L) |-> ClassAuroc(Column(L, n), Column(S, n), ord[n])]
        prc == [n \in 1..NumClasses(L) |-> ClassAuprc(Column(L, n), Column(S, n), ord[n])]
    IN  <<MacroAverage(roc), MacroAverage(prc), roc, prc>>

\* the orders the sorts of a call may give, one per class
OrderChoices(S) ==
    {ord \in [1..NumClasses(S) -> RecordOrders(NumRecordings(S))] :
        \A n \in 1..NumClasses(S) : ord[n] \in SortOrders(Column(S, n))}

\* the rows of m in the order p
Permute(m, p) == [r \in 1..Len(m) |-> m[p[r]]]

\* C14: for every permutation of the records applied to the rows of L and S,
\* and whatever order the sort gives to tied records, _compute_auc returns the
\* same per-class and macro AUROC and AUPRC.
C14_PermutationInvariant ==
    (pc = "auc_done") =>
        \A p \in RecordOrders(NumRecordings(labels)) :
            \A ord \in OrderChoices(Permute(scalar_pred, p)) :
                compute_auc(Permute(labels, p), Permute(scalar_pred, p), ord) = Val(result)

\* a call returned a number for a class where a true and a false record are
\* tied and a third record has another score
C14_Witness ==
    /\ pc = "auc_done"
    /\ NumRecordings(labels) >= 3
    /\ \E n \in 1..NumClasses(labels) :
          /\ ~IsNaN(Val(result)[3][n])
          /\ \E a, b, c \in 1..NumRecordings(labels) :
                /\ scalar_pred[a][n] = scalar_pred[b][n]
                /\ labels[a][n] = 1 /\ labels[b][n] = 0
                /\ scalar_pred[c][n] # scalar_pred[a][n]

\* S assigns the maximum score to every true entry and 0 to every other entry
PerfectScores ==
    \A r \in 1..NumRecordings(labels) : \A n \in 1..NumClasses(labels) :
        scalar_pred[r][n] = IF labels[r][n] = 1 THEN ScoreLevels ELSE 0

HasTrue(n) == \E r \in 1..NumRecordings(labels) : labels[r][n] = 1
HasFalse(n) == \E r \in 1..NumRecordings(labels) : labels[r][n] = 0

\* C15 as stated: under perfect scores every class's AUROC and AUPRC are 1.0,
\* and either is NaN only if the class has no true record
C15_Original ==
    (pc = "auc_done" /\ PerfectScores) =>
        \A n \in 1..NumClasses(labels) :
            /\ Val(result)[3][n] \in {<<1, 1>>, NaN}
            /\ Val(result)[4][n] \in {<<1, 1>>, NaN}
            /\ (IsNaN(Val(result)[3][n]) \/ IsNaN(Val(result)[4][n])) => ~HasTrue(n)

\* C15: under perfect scores a class with a true and a false record has AUROC
\* and AUPRC 1.0; a class that is true for every record has AUPRC 1.0 and
\* AUROC NaN (no negative, so no specificity); a class with no true record
\* has both NaN.
C15_Amended ==
    (pc = "auc_done" /\ PerfectScores) =>
        \A n \in 1..NumClasses(labels) :
            /\ (HasTrue(n) /\ HasFalse(n)) =>
                  Val(result)[3][n] = <<1, 1>> /\ Val(result)[4][n] = <<1, 1>>
            /\ (HasTrue(n) /\ ~HasFalse(n)) =>
                  IsNaN(Val(result)[3][n]) /\ Val(result)[4][n] = <<1, 1>>
            /\ ~HasTrue(n) =>
                  IsNaN(Val(result)[3][n]) /\ IsNaN(Val(result)[4][n])

\* perfect scores were ranked, one class true for every record and one mixed
C15_Witness ==
    /\ pc = "auc_done"
    /\ PerfectScores
    /\ \E n, m \in 1..NumClasses(labels) :
          /\ HasTrue(n) /\ ~HasFalse(n)
          /\ HasTrue(m) /\ HasFalse(m)

\* the sum of the floats f[x] over the x in S
RECURSIVE RatSumOver(_, _)
RatSumOver(f, S) ==
    IF S = {} THEN Zero
    ELSE LET x == CHOOSE y \in S : TRUE IN RatAdd(f[x], RatSumOver(f, S \ {x}))

\* macro is the mean of arr over the classes whose value is not NaN
IsMeanOfFinite(macro, arr) ==
    LET F == {n \in DOMAIN arr : ~IsNaN(arr[n])}
    IN  IF F = {} THEN IsNaN(macro)
        ELSE /\ ~IsNaN(macro)
             /\ RatMul(macro, <<Cardinality(F), 1>>) = RatSumOver(arr, F)

\* C16: macro AUROC, macro AUPRC and macro F1 each equal the mean of the
\* per-class values over exactly the classes whose value is not NaN, and are
\* NaN when every class's value is NaN.
C16_MacroIgnoresNaN ==
    /\ (pc = "auc_done") =>
          /\ IsMeanOfFinite(Val(result)[1], Val(result)[3])
          /\ IsMeanOfFinite(Val(result)[2], Val(result)[4])
    /\ (pc = "f_done") => IsMeanOfFinite(Val(result)[1], Val(result)[2])

\* a call returned a macro AUROC over a NaN class and a class of positive area
C16_Witness ==
    /\ pc = "auc_done"
    /\ \E n, m \in 1..NumClasses(labels) :
          /\ IsNaN(Val(result)[3][n])
          /\ ~IsNaN(Val(result)[3][m])
          /\ Val(result)[3][m] # Zero
          /\ Val(result)[1] = Val(result)[3][m]

\* ------------------------------------------------------------------ arguments outside the contract
MaxCellsV == 2
MaxEntry == 2

\* a call of one of the four functions on labels and predictions of equal
\* shape whose entries are integers, 0 and 1 or larger
InitValues ==
    /\ \E s \in Shapes(MaxCellsV) :
          /\ labels \in Matrices(s[1], s[2], 0..MaxEntry)
          /\ outputs \in Matrices(s[1], s[2], 0..MaxEntry)
          /\ \/ /\ pc \in {"cm_call", "mcm_call", "acc_call"}
                /\ weights = <<>>
                /\ classes = <<>>
                /\ sinus_rhythm = ""
             \/ /\ pc = "ch_call"
                /\ weights \in Weights(s[2])
                /\ classes = SubSeq(ClassNames, 1, s[2])
                /\ sinus_rhythm \in Range(classes) \cup {MissingName}
    /\ normalize \in IF pc = "cm_call" THEN BOOLEAN ELSE {FALSE}
    /\ i = 0
    /\ A = Unbound
    /\ sinus_rhythm_index = Unbound
    /\ observed_score = Unbound
    /\ correct_score = Unbound
    /\ inactive_score = Unbound
    /\ result = Unbound
    /\ NoMore

NextValues == NextCM \/ NextMCM \/ NextAcc \/ NextCh

SpecValues == InitValues /\ [][NextValues]_vars

\* some label or prediction entry is neither 0 nor 1
HasInvalidEntry ==
    \E r \in 1..NumRecordings(labels) : \E n \in 1..NumClasses(labels) :
        labels[r][n] \notin {0, 1} \/ outputs[r][n] \notin {0, 1}

\* the function returned a value
Returned == pc \in {"done", "acc_done"}

\* C12: whenever a label or binary-prediction entry is outside {0,1}, each of
\* _compute_confusion_matrices, _compute_modified_confusion_matrix,
\* compute_challenge_metric and _compute_accuracy fails instead of returning.
C12_InvalidEntriesFail == HasInvalidEntry => ~Returned

\* a call of _compute_confusion_matrices or _compute_modified_confusion_matrix
\* on 0/1 arrays where the predictions have at least the rows and the columns
\* of the labels; with fewer, the first missing entry raises IndexError
InitShapes ==
    /\ \E s \in Shapes(MaxCellsV) : \E t \in Shapes(MaxCellsV) :
          /\ t[1] >= s[1] /\ t[2] >= s[2]
          /\ labels \in Matrices(s[1], s[2], {0, 1})
          /\ outputs \in Matrices(t[1], t[2], {0, 1})
    /\ pc \in {"cm_call", "mcm_call"}
    /\ normalize \in IF pc = "cm_call" THEN BOOLEAN ELSE {FALSE}
    /\ weights = <<>>
    /\ classes = <<>>
    /\ sinus_rhythm = ""
    /\ i = 0
    /\ A = Unbound
    /\ sinus_rhythm_index = Unbound
    /\ observed_score = Unbound
    /\ correct_score = Unbound
    /\ inactive_score = Unbound
    /\ result = Unbound
    /\ NoMore

NextShapes == NextCM \/ NextMCM

SpecShapes == InitShapes /\ [][NextShapes]_vars

\* np.shape(outputs) # np.shape(labels)
ShapesDiffer ==
    \/ NumRecordings(outputs) # NumRecordings(labels)
    \/ NumClasses(outputs) # NumClasses(labels)

\* C13: whenever B has a different shape from L, _compute_confusion_matrices
\* and _compute_modified_confusion_matrix fail rather than compute a result
\* from the part of B that overlaps L.
C13_ShapeMismatchFails == ShapesDiffer => pc # "done"

\* ------------------------------------------------------------------ _compute_beta_measures
FBetaOfLinear(tp, fp, fn, b) ==
    IF (1 + b) * tp + fp + b * fn # 0
    THEN FloatDiv((1 + b) * tp, (1 + b) * tp + fp + b * fn)
    ELSE NaN

\* f_beta_measure[k]
FBetaOf(tp, fp, fn, b) ==
    IF (1 + b * b) * tp + fp + b * b * fn # 0
    THEN FloatDiv((1 + b * b) * tp, (1 + b * b) * tp + fp + b * b * fn)
    ELSE NaN

\* g_beta_measure[k]
GBetaOf(tp, fp, fn, b) ==
    IF tp + fp + b * fn # 0 THEN FloatDiv(tp, tp + fp + b * fn) ELSE NaN

\* the whole call _compute_beta_measures(L, B, beta)
compute_beta_measures(L, B, b) ==
    LET a == compute_confusion_matrices(L, B, TRUE)
    IN  IF a = ValueError THEN ValueError
        ELSE <<NanMean([n \in DOMAIN a |-> FBetaOf(a[n][1][1], a[n][1][0], a[n][0][1], b)]),
               NanMean([n \in DOMAIN a |-> GBetaOf(a[n][1][1], a[n][1][0], a[n][0][1], b)])>>

\* ------------------------------------------------------------------ compute_all_metrics_detailed, compute_all_metrics
MaxCellsF == 2

\* _compute_beta_measures(_truth, _binary_pred, beta=2)
Beta == 2

\* the class names the persisted weight table has a row for
WeightTableClasses == Range(ClassNames)

\* a name the weight table has no row for
UnknownName == "XYZ"

\* load_weights(classes=classes): the matrices the table can yield for these
\* classes, none when a class has no entry in the table (a lookup error)
load_weights(cls) == IF Range(cls) \subseteq WeightTableClasses THEN Weights(Len(cls)) ELSE {}

\* the argument classes: C distinct names
ClassLists(C) ==
    {cls \in [1..C -> {"AF", "NSR", "PVC", UnknownName}] :
        \A a, b \in 1..C : cls[a] = cls[b] => a = b}

\* the whole call compute_challenge_metric(W, L, B, cls, sr)
compute_challenge_metric(W, L, B, cls, sr) ==
    IF sr \notin Range(cls) THEN ValueError
    ELSE NormalizedScore(
            NanSum(W, compute_modified_confusion_matrix(L, B)),
            NanSum(W, compute_modified_confusion_matrix(L, CorrectOutputs(L))),
            NanSum(W, compute_modified_confusion_matrix(L,
                        InactiveOutputs(NumRecordings(L), NumClasses(L), Index(cls, sr)))))

\* the locals loc after "name = v"
Assign(loc, name, v) == [x \in DOMAIN loc \cup {name} |-> IF x = name THEN v ELSE loc[x]]

InitFacade ==
    /\ \E s \in Shapes(MaxCellsF) :
          /\ labels \in Matrices(s[1], s[2], {0, 1})
          /\ outputs \in Matrices(s[1], s[2], {0, 1})
          /\ scalar_pred \in Matrices(s[1], s[2], 0..ScoreLevels)
          /\ classes \in ClassLists(s[2])
    /\ entry \in {"detailed", "summary"}
    /\ pc = "fac_call"
    /\ normalize = FALSE
    /\ weights = <<>>
    /\ sinus_rhythm = ""
    /\ i = 0
    /\ A = Unbound
    /\ sinus_rhythm_index = Unbound
    /\ observed_score = Unbound
    /\ correct_score = Unbound
    /\ inactive_score = Unbound
    /\ result = Unbound
    /\ class_k = 0
    /\ num_correct_recordings = Unbound
    /\ f_measure = Unbound
    /\ auroc = Unbound
    /\ auprc = Unbound
    /\ locals = <<>>
    /\ NoRest

\* sinus_rhythm = "NSR"; weights = load_weights(classes=classes)
FacLoadWeights ==
    /\ pc = "fac_call"
    /\ sinus_rhythm' = "NSR"
    /\ IF load_weights(classes) # {}
       THEN /\ weights' \in load_weights(classes)
            /\ pc' = "fac_auc"
       ELSE /\ pc' = "LookupError"
            /\ UNCHANGED weights
    /\ UNCHANGED <<labels, outputs, normalize, classes, i, A,
                   sinus_rhythm_index, observed_score, correct_score, inactive_score, result,
                   scalar_pred, class_k, num_correct_recordings, f_measure, auroc, auprc,
                   locals, entry, rest>>

\* auroc, auprc, auroc_classes, auprc_classes = _compute_auc(_truth, _scalar_pred)
FacAuc ==
    /\ pc = "fac_auc"
    /\ \E ord \in OrderChoices(scalar_pred) :
          LET r == compute_auc(labels, scalar_pred, ord)
          IN  locals' = Assign(Assign(Assign(Assign(locals, "auroc", r[1]), "auprc", r[2]),
                                      "auroc_classes", r[3]), "auprc_classes", r[4])
    /\ pc' = "fac_accuracy"
    /\ UNCHANGED <<labels, outputs, normalize, weights, classes, sinus_rhythm, i, A,
                   sinus_rhythm_index, observed_score, correct_score, inactive_score, result,
                   scalar_pred, class_k, num_correct_recordings, f_measure, auroc, auprc, entry, rest>>

\* accuracy = _compute_accuracy(_truth, _binary_pred)
FacAccuracy ==
    /\ pc = "fac_accuracy"
    /\ locals' = Assign(locals, "accuracy", compute_accuracy(labels, outputs))
    /\ pc' = "fac_f_measure"
    /\ UNCHANGED <<labels, outputs, normalize, weights, classes, sinus_rhythm, i, A,
                   sinus_rhythm_index, observed_score, correct_score, inactive_score, result,
                   scalar_pred, class_k, num_correct_recordings, f_measure, auroc, auprc, entry, rest>>

\* f_measure, f_measure_classes = _compute_f_measure(_truth, _binary_pred)
FacFMeasure ==
    /\ pc = "fac_f_measure"
    /\ LET r == compute_f_measure(labels, outputs)
       IN  IF r = ValueError
           THEN /\ pc' = "ValueError"
                /\ UNCHANGED locals
           ELSE /\ locals' = Assign(Assign(locals, "f_measure", r[1]), "f_measure_classes", r[2])
                /\ pc' = "fac_beta"
    /\ UNCHANGED <<labels, outputs, normalize, weights, classes, sinus_rhythm, i, A,
                   sinus_rhythm_index, observed_score, correct_score, inactive_score, result,
                   scalar_pred, class_k, num_correct_recordings, f_measure, auroc, auprc, entry, rest>>

\* f_beta_measure, g_beta_measure = _compute_beta_measures(_truth, _binary_pred, beta=2)
FacBeta ==
    /\ pc = "fac_beta"
    /\ LET r == compute_beta_measures(labels, outputs, Beta)
       IN  IF r = ValueError
           THEN /\ pc' = "ValueError"
                /\ UNCHANGED locals
           ELSE /\ locals' = Assign(Assign(locals, "f_beta_measure", r[1]), "g_beta_measure", r[2])
                /\ pc' = "fac_challenge"
    /\ beta' = Bound(Beta)
    /\ UNCHANGED <<labels, outputs, normalize, weights, classes, sinus_rhythm, i, A,
                   sinus_rhythm_index, observed_score, correct_score, inactive_score, result,
                   scalar_pred, class_k, num_correct_recordings, f_measure, auroc, auprc, entry,
                   f_beta_measure, g_beta_measure, sweep>>

\* challenge_metric = compute_challenge_metric(weights, _truth, _binary_pred, classes, sinus_rhythm)
FacChallenge ==
    /\ pc = "fac_challenge"
    /\ LET r == compute_challenge_metric(weights, labels, outputs, classes, sinus_rhythm)
       IN  IF r = ValueError
           THEN /\ pc' = "ValueError"
                /\ UNCHANGED locals
           ELSE /\ locals' = Assign(locals, "challenge_metric", r)
                /\ pc' = "fac_return"
    /\ UNCHANGED <<labels, outputs, normalize, weights, classes, sinus_rhythm, i, A,
                   sinus_rhythm_index, observed_score, correct_score, inactive_score, result,
                   scalar_pred, class_k, num_correct_recordings, f_measure, auroc, auprc, entry, rest>>

\* return ret_tuple, to the caller or to compute_all_metrics
FacReturn ==
    /\ pc = "fac_return"
    /\ result' = Bound(<<locals["auroc"], locals["auprc"], locals["auroc_classes"],
                         locals["auprc_classes"], locals["accuracy"], locals["f_measure"],
                         locals["f_measure_classes"], locals["f_beta_measure"],
                         locals["g_beta_measure"], locals["challenge_metric"]>>)
    /\ pc' = IF entry = "detailed" THEN "fac_done" ELSE "sum_return"
    /\ UNCHANGED <<labels, outputs, normalize, weights, classes, sinus_rhythm, i, A,
                   sinus_rhythm_index, observed_score, correct_score, inactive_score,
                   scalar_pred, class_k, num_correct_recordings, f_measure, auroc, auprc,
                   locals, entry, rest>>

SummaryReturnSwapped ==
    /\ pc = "sum_return"
    /\ LET t == Val(result)
       IN  result' = Bound(<<t[1], t[2], t[6], t[5], t[8], t[9], t[10]>>)
    /\ pc' = "fac_done"
    /\ UNCHANGED <<labels, outputs, normalize, weights, classes, sinus_rhythm, i, A,
                   sinus_rhythm_index, observed_score, correct_score, inactive_score,
                   scalar_pred, class_k, num_correct_recordings, f_measure, auroc, auprc,
                   locals, entry, rest>>

\* compute_all_metrics: unpack the ten values, return seven of them
SummaryReturn ==
    /\ pc = "sum_return"
    /\ LET t == Val(result)
       IN  result' = Bound(<<t[1], t[2], t[5], t[6], t[8], t[9], t[10]>>)
    /\ pc' = "fac_done"
    /\ UNCHANGED <<labels, outputs, normalize, weights, classes, sinus_rhythm, i, A,
                   sinus_rhythm_index, observed_score, correct_score, inactive_score,
                   scalar_pred, class_k, num_correct_recordings, f_measure, auroc, auprc,
                   locals, entry, rest>>

NextFacade ==
    \/ FacLoadWeights
    \/ FacAuc
    \/ FacAccuracy
    \/ FacFMeasure
    \/ FacBeta
    \/ FacChallenge
    \/ FacReturn
    \/ SummaryReturn

SpecFacade == InitFacade /\ [][NextFacade]_vars

\* the call has raised
Raised == pc \in {"ValueError", "LookupError", "ZeroDivisionError"}

\* C11: a call to either entry point completes or raises its configuration
\* error before any metric computation begins: when "NSR" is absent from
\* classes, the error is raised before the AUROC/AUPRC, accuracy, F-measure
\* and F-beta/G-beta computations are run.
C11_ErrorBeforeComputation == Raised => DOMAIN locals = {}

\* ------------------------------------------------------------------ truth and prediction swapped
\* np.transpose of a square matrix
Transpose(M) == [j \in DOMAIN M |-> [n \in DOMAIN M |-> M[n][j]]]

\* C30: for all 0/1 matrices L and B of the same shape,
\* _compute_modified_confusion_matrix(B, L) is the transpose of
\* _compute_modified_confusion_matrix(L, B).
C30_SwapTransposes ==
    (pc = "done") =>
        compute_modified_confusion_matrix(outputs, labels) = Transpose(Val(result))

\* a matrix that is not symmetric was returned, from a record whose true and
\* predicted classes differ in number
C30_Witness ==
    /\ pc = "done"
    /\ Val(result) # Transpose(Val(result))
    /\ \E r \in 1..NumRecordings(labels) : SumSeq(labels[r]) # SumSeq(outputs[r])

\* ------------------------------------------------------------------ _compute_beta_measures, step by step
MaxBeta == 2

\* a call _compute_beta_measures(labels, outputs, beta)
InitBeta ==
    /\ \E s \in Shapes(MaxCells) :
          /\ labels \in Matrices(s[1], s[2], {0, 1})
          /\ outputs \in Matrices(s[1], s[2], {0, 1})
    /\ beta \in {Bound(b) : b \in 1..MaxBeta}
    /\ normalize = TRUE
    /\ weights = <<>>
    /\ classes = <<>>
    /\ sinus_rhythm = ""
    /\ pc = "beta_call"
    /\ i = 0
    /\ A = Unbound
    /\ sinus_rhythm_index = Unbound
    /\ observed_score = Unbound
    /\ correct_score = Unbound
    /\ inactive_score = Unbound
    /\ result = Unbound
    /\ scalar_pred = <<>>
    /\ class_k = 0
    /\ num_correct_recordings = Unbound
    /\ f_measure = Unbound
    /\ auroc = Unbound
    /\ auprc = Unbound
    /\ locals = <<>>
    /\ entry = ""
    /\ f_beta_measure = Unbound
    /\ g_beta_measure = Unbound
    /\ sweep = Unbound

\* A = _compute_confusion_matrices(labels, outputs, normalize=True); the two np.zeros
BetaConfusion ==
    /\ pc = "beta_call"
    /\ LET a == compute_confusion_matrices(labels, outputs, TRUE)
       IN  IF a = ValueError
           THEN /\ pc' = "ValueError"
                /\ UNCHANGED <<A, f_beta_measure, g_beta_measure, class_k>>
           ELSE /\ A' = a
                /\ f_beta_measure' = Bound(ZerosC(NumClasses(labels)))
                /\ g_beta_measure' = Bound(ZerosC(NumClasses(labels)))
                /\ class_k' = 1
                /\ pc' = "beta_loop"
    /\ UNCHANGED <<labels, outputs, normalize, weights, classes, sinus_rhythm, i,
                   sinus_rhythm_index, observed_score, correct_score, inactive_score, result,
                   scalar_pred, num_correct_recordings, f_measure, auroc, auprc, locals, entry,
                   beta, sweep>>

\* one iteration of "for k in range(num_classes)"
BetaClass ==
    /\ pc = "beta_loop"
    /\ class_k <= NumClasses(labels)
    /\ f_beta_measure' = Bound([Val(f_beta_measure) EXCEPT ![class_k] =
          FBetaOf(A[class_k][1][1], A[class_k][1][0], A[class_k][0][1], Val(beta))])
    /\ g_beta_measure' = Bound([Val(g_beta_measure) EXCEPT ![class_k] =
          GBetaOf(A[class_k][1][1], A[class_k][1][0], A[class_k][0][1], Val(beta))])
    /\ class_k' = class_k + 1
    /\ UNCHANGED <<labels, outputs, normalize, weights, classes, sinus_rhythm, pc, i, A,
                   sinus_rhythm_index, observed_score, correct_score, inactive_score, result,
                   scalar_pred, num_correct_recordings, f_measure, auroc, auprc, locals, entry,
                   beta, sweep>>

\* the two np.nanmean; return macro_f_beta_measure, macro_g_beta_measure
BetaReturn ==
    /\ pc = "beta_loop"
    /\ class_k > NumClasses(labels)
    /\ result' = Bound(<<NanMean(Val(f_beta_measure)), NanMean(Val(g_beta_measure))>>)
    /\ pc' = "beta_done"
    /\ UNCHANGED <<labels, outputs, normalize, weights, classes, sinus_rhythm, i, A,
                   sinus_rhythm_index, observed_score, correct_score, inactive_score,
                   scalar_pred, class_k, num_correct_recordings, f_measure, auroc, auprc,
                   locals, entry, rest>>

NextBeta == BetaConfusion \/ BetaClass \/ BetaReturn

\* direct calls of _compute_beta_measures and calls of the entry points
InitBetaCalls == InitBeta \/ InitFacade

NextBetaCalls == NextBeta \/ NextFacade

SpecBeta == InitBetaCalls /\ [][NextBetaCalls]_vars

\* the normalized-mode cell (label l, output o) of class n over all records
NormCell(n, l, o) ==
    SumOver([r \in 1..NumRecordings(labels) |->
                IF labels[r][n] = l /\ outputs[r][n] = o THEN NormWeight(r) ELSE 0],
            1..NumRecordings(labels))

\* numerators and denominators of F-beta and G-beta of class n for b
FBetaNum(n, b) == (1 + b * b) * NormCell(n, 1, 1)
FBetaDen(n, b) == (1 + b * b) * NormCell(n, 1, 1) + NormCell(n, 0, 1) + b * b * NormCell(n, 1, 0)
GBetaNum(n, b) == NormCell(n, 1, 1)
GBetaDen(n, b) == NormCell(n, 1, 1) + NormCell(n, 0, 1) + b * NormCell(n, 1, 0)

\* x is num / den, NaN exactly when den = 0
IsQuotient(x, num, den) ==
    /\ IsNaN(x) <=> den = 0
    /\ ~IsNaN(x) => x[1] * den = x[2] * num

\* the quotient num / den as a float
Quotient(num, den) == IF den = 0 THEN NaN ELSE FloatDiv(num, den)

\* C21: for every class k, F-beta_k = (1+b^2)TP / ((1+b^2)TP + FP + b^2 FN) and
\* G-beta_k = TP / (TP + FP + b FN) on the normalized cells, each NaN exactly
\* when its denominator is 0; the NaN-ignoring means are returned; the entry
\* points always call with beta = 2.
C21_BetaMeasures ==
    /\ (pc = "beta_done") =>
          /\ \A n \in 1..NumClasses(labels) :
                /\ IsQuotient(Val(f_beta_measure)[n], FBetaNum(n, Val(beta)), FBetaDen(n, Val(beta)))
                /\ IsQuotient(Val(g_beta_measure)[n], GBetaNum(n, Val(beta)), GBetaDen(n, Val(beta)))
          /\ IsMeanOfFinite(Val(result)[1], Val(f_beta_measure))
          /\ IsMeanOfFinite(Val(result)[2], Val(g_beta_measure))
    /\ ("f_beta_measure" \in DOMAIN locals) =>
          /\ beta = Bound(2)
          /\ IsMeanOfFinite(locals["f_beta_measure"],
                [n \in 1..NumClasses(labels) |-> Quotient(FBetaNum(n, 2), FBetaDen(n, 2))])
          /\ IsMeanOfFinite(locals["g_beta_measure"],
                [n \in 1..NumClasses(labels) |-> Quotient(GBetaNum(n, 2), GBetaDen(n, 2))])

\* a call with beta = 2 returned, with a class of NaN measures, a class whose
\* two measures differ and a record of several true labels
C21_Witness ==
    /\ pc = "beta_done"
    /\ beta = Bound(2)
    /\ \E r \in 1..NumRecordings(labels) : NumTrue(r) >= 2
    /\ \E n, m \in 1..NumClasses(labels) :
          /\ IsNaN(Val(f_beta_measure)[n]) /\ IsNaN(Val(g_beta_measure)[n])
          /\ ~IsNaN(Val(f_beta_measure)[m])
          /\ Val(f_beta_measure)[m] # Val(g_beta_measure)[m]
          /\ Val(f_beta_measure)[m] # <<1, 1>>

\* ------------------------------------------------------------------ claims on the entry points
\* the ten values of section 4.8 in the documented order, from the calls of the
\* metric functions on the arguments, when the sorts give the orders ord
TenValues(ord) ==
    <<compute_auc(labels, scalar_pred, ord)[1],
      compute_auc(labels, scalar_pred, ord)[2],
      compute_auc(labels, scalar_pred, ord)[3],
      compute_auc(labels, scalar_pred, ord)[4],
      compute_accuracy(labels, outputs),
      compute_f_measure(labels, outputs)[1],
      compute_f_measure(labels, outputs)[2],
      compute_beta_measures(labels, outputs, Beta)[1],
      compute_beta_measures(labels, outputs, Beta)[2],
      compute_challenge_metric(weights, labels, outputs, classes, sinus_rhythm)>>

\* positions 0, 1, 4, 5, 7, 8, 9 of a 10-tuple
SevenOf(t) == <<t[1], t[2], t[5], t[6], t[8], t[9], t[10]>>

WhileAbsorbsStrict(c, out, idx, th) == c.i <= Len(out) /\ out[idx[c.i]] > th

\* i < num_recordings and outputs[idx[i], k] >= thresholds[j]
WhileAbsorbs(c, out, idx, th) == c.i <= Len(out) /\ out[idx[c.i]] >= th

\* a call _compute_auc(labels, scalar_pred)
InitSweep ==
    /\ \E s \in Shapes(MaxCellsS) :
          /\ labels \in Matrices(s[1], s[2], {0, 1})
          /\ scalar_pred \in Matrices(s[1], s[2], 0..ScoreLevels)
    /\ outputs = <<>>
    /\ pc = "auc_call"
    /\ normalize = FALSE
    /\ weights = <<>>
    /\ classes = <<>>
    /\ sinus_rhythm = ""
    /\ i = 0
    /\ A = Unbound
    /\ sinus_rhythm_index = Unbound
    /\ observed_score = Unbound
    /\ correct_score = Unbound
    /\ inactive_score = Unbound
    /\ result = Unbound
    /\ class_k = 0
    /\ num_correct_recordings = Unbound
    /\ f_measure = Unbound
    /\ auroc = Unbound
    /\ auprc = Unbound
    /\ locals = <<>>
    /\ entry = ""
    /\ NoRest

\* thresholds; tp, fp, fn, tn with fn[0], tn[0]; idx; i = 0. cs[j + 1] holds
\* tp[j], fp[j], fn[j], tn[j] and the cursor i (as the next position of idx)
SweepBegin ==
    /\ pc = "auc_loop"
    /\ class_k <= NumClasses(labels)
    /\ \E idx \in SortOrders(Column(scalar_pred, class_k)) :
          sweep' = [k |-> class_k,
                    thresholds |-> Thresholds(Column(scalar_pred, class_k)),
                    idx |-> idx,
                    cs |-> <<FirstCounts(Column(labels, class_k))>>,
                    j |-> 1]
    /\ pc' = "sweep_for"
    /\ UNCHANGED <<labels, outputs, normalize, weights, classes, sinus_rhythm, i, A,
                   sinus_rhythm_index, observed_score, correct_score, inactive_score, result,
                   scalar_pred, class_k, num_correct_recordings, f_measure, auroc, auprc,
                   locals, entry, beta, f_beta_measure, g_beta_measure>>

\* for j in range(1, num_thresholds): tp[j] = tp[j - 1]; ...
SweepThreshold ==
    /\ pc = "sweep_for"
    /\ sweep.j < Len(sweep.thresholds)
    /\ sweep' = [sweep EXCEPT !.cs = Append(@, @[Len(@)]), !.j = @ + 1]
    /\ pc' = "sweep_while"
    /\ UNCHANGED <<labels, outputs, normalize, weights, classes, sinus_rhythm, i, A,
                   sinus_rhythm_index, observed_score, correct_score, inactive_score, result,
                   scalar_pred, class_k, num_correct_recordings, f_measure, auroc, auprc,
                   locals, entry, beta, f_beta_measure, g_beta_measure>>

\* one test of the while condition, and one run of the body if it holds
SweepAbsorb ==
    /\ pc = "sweep_while"
    /\ IF WhileAbsorbs(sweep.cs[sweep.j], Column(scalar_pred, sweep.k), sweep.idx,
                       sweep.thresholds[sweep.j])
       THEN /\ sweep' = [sweep EXCEPT !.cs[sweep.j] =
                            AbsorbRecord(@, Column(labels, sweep.k), sweep.idx)]
            /\ pc' = "sweep_while"
       ELSE /\ pc' = "sweep_for"
            /\ UNCHANGED sweep
    /\ UNCHANGED <<labels, outputs, normalize, weights, classes, sinus_rhythm, i, A,
                   sinus_rhythm_index, observed_score, correct_score, inactive_score, result,
                   scalar_pred, class_k, num_correct_recordings, f_measure, auroc, auprc,
                   locals, entry, beta, f_beta_measure, g_beta_measure>>

\* tpr, tnr, ppv; auroc[k] and auprc[k]; the next class
SweepSummarize ==
    /\ pc = "sweep_for"
    /\ sweep.j = Len(sweep.thresholds)
    /\ auroc' = Bound([Val(auroc) EXCEPT ![class_k] = AurocFrom(sweep.cs, 1)])
    /\ auprc' = Bound([Val(auprc) EXCEPT ![class_k] = AuprcFrom(sweep.cs, 1)])
    /\ class_k' = class_k + 1
    /\ pc' = "auc_loop"
    /\ UNCHANGED <<labels, outputs, normalize, weights, classes, sinus_rhythm, i, A,
                   sinus_rhythm_index, observed_score, correct_score, inactive_score, result,
                   scalar_pred, num_correct_recordings, f_measure, locals, entry, rest>>

NextSweep ==
    \/ AucBegin
    \/ SweepBegin
    \/ SweepThreshold
    \/ SweepAbsorb
    \/ SweepSummarize
    \/ AucReturn

SpecSweep == InitSweep /\ [][NextSweep]_vars

\* ------------------------------------------------------------------ claims on the threshold sweep
\* a class is being swept
InSweep == pc \in {"sweep_for", "sweep_while"}

\* outputs[:, k] of the class being swept
SweepScores == Column(scalar_pred, sweep.k)

\* the records of class n that are true / not true
Positives(n) == {r \in 1..NumRecordings(labels) : labels[r][n] = 1}
Negatives(n) == {r \in 1..NumRecordings(labels) : labels[r][n] = 0}

\* the records whose score of the swept class is at least th
AtLeast(th) == {r \in 1..NumRecordings(labels) : SweepScores[r] >= th}

\* step m of the sweep (1 is the sentinel step) has run its while loop to the end
StepDone(m) == m < Len(sweep.cs) \/ pc = "sweep_for"

\* C25: the threshold list is the distinct values of S[:,k] in strictly
\* descending order preceded by the sentinel max+1, and at the sentinel step no
\* record is predicted positive: TP=0, FP=0, FN = number of true positives,
\* TN = number of true negatives of class k.
C25_Thresholds ==
    InSweep =>
        LET ths  == sweep.thresholds
            vals == {SweepScores[r] : r \in 1..NumRecordings(labels)}
        IN  /\ Len(ths) = Cardinality(vals) + 1
            /\ \E mx \in vals : (\A v \in vals : v <= mx) /\ ths[1] = mx + 1
            /\ {ths[t] : t \in 2..Len(ths)} = vals
            /\ \A t \in 1..(Len(ths) - 1) : ths[t] > ths[t + 1]
            /\ AtLeast(ths[1]) = {}
            /\ sweep.cs[1].tp = 0
            /\ sweep.cs[1].fp = 0
            /\ sweep.cs[1].fn = Cardinality(Positives(sweep.k))
            /\ sweep.cs[1].tn = Cardinality(Negatives(sweep.k))

\* a sweep over tied scores and at least two distinct ones, of a class with a
\* true and a false record, has passed the sentinel step
C25_Witness ==
    /\ pc = "sweep_while"
    /\ Len(sweep.thresholds) >= 3
    /\ Len(sweep.thresholds) < NumRecordings(labels) + 1
    /\ sweep.cs[1].fn >= 1
    /\ sweep.cs[1].tn >= 1

\* the cursor i of the sweep, as the next position of idx
Cursor == sweep.cs[Len(sweep.cs)].i

\* the records absorbed in step m
AbsorbedIn(m) == {sweep.idx[q] : q \in sweep.cs[m - 1].i .. (sweep.cs[m].i - 1)}

\* what holds of the records absorbed so far, and at the end of the sweep
SweepAbsorbsOnce ==
    InSweep =>
        /\ \A a, b \in 1..NumRecordings(labels) : sweep.idx[a] = sweep.idx[b] => a = b
        /\ \A m \in 2..Len(sweep.cs) :
              /\ AbsorbedIn(m) \subseteq {r \in 1..NumRecordings(labels) :
                                            SweepScores[r] = sweep.thresholds[m]}
              /\ StepDone(m) => AbsorbedIn(m) = {r \in 1..NumRecordings(labels) :
                                                    SweepScores[r] = sweep.thresholds[m]}
        /\ (pc = "sweep_for" /\ sweep.j = Len(sweep.thresholds)) =>
              /\ Cursor = NumRecordings(labels) + 1
              /\ sweep.cs[sweep.j].fn = 0
              /\ sweep.cs[sweep.j].tn = 0

\* the cursor stays or moves forward by one record
CursorAdvances == (InSweep /\ InSweep') => (Cursor' = Cursor \/ Cursor' = Cursor + 1)

\* C26: during the sweep of one class the cursor only advances, every record
\* is absorbed exactly once, at the step whose threshold equals its score, and
\* when the sweep ends the cursor equals R, with FN = 0 and TN = 0 at the last
\* threshold.
C26_AbsorbedOnce == []SweepAbsorbsOnce /\ [][CursorAdvances]_vars

\* a sweep of at least three records with tied scores and two distinct scores
\* has ended
C26_Witness ==
    /\ pc = "sweep_for"
    /\ sweep.j = Len(sweep.thresholds)
    /\ NumRecordings(labels) >= 3
    /\ Len(sweep.thresholds) = 3
    /\ Cursor = NumRecordings(labels) + 1

\* C27: at every threshold step j the counts satisfy TP[j]+FN[j] = number of
\* true positives, FP[j]+TN[j] = number of true negatives, TP[j]+FP[j] =
\* number of records whose score is >= thresholds[j] (once the step's while
\* loop has ended), all four are non-negative, TP and FP non-decreasing in j.
C27_RunningCounts ==
    InSweep =>
        \A m \in 1..Len(sweep.cs) :
            LET c == sweep.cs[m] IN
            /\ c.tp + c.fn = Cardinality(Positives(sweep.k))
            /\ c.fp + c.tn = Cardinality(Negatives(sweep.k))
            /\ StepDone(m) => c.tp + c.fp = Cardinality(AtLeast(sweep.thresholds[m]))
            /\ c.tp >= 0 /\ c.fp >= 0 /\ c.fn >= 0 /\ c.tn >= 0
            /\ m > 1 => (c.tp >= sweep.cs[m - 1].tp /\ c.fp >= sweep.cs[m - 1].fp)

\* two steps after the sentinel are done, with true and false records absorbed
C27_Witness ==
    /\ pc = "sweep_for"
    /\ sweep.j >= 3
    /\ sweep.cs[3].tp >= 1
    /\ sweep.cs[3].fp >= 1
    /\ sweep.cs[2].tp + sweep.cs[2].fp < sweep.cs[3].tp + sweep.cs[3].fp
    /\ sweep.cs[3].fn + sweep.cs[3].tn >= 1

\* ------------------------------------------------------------------ claims on the areas
\* the (true, not true) record pairs of class n whose scores are in the order gt
\* (1: the true record scores higher, 0: equal scores)
PairsOf(n, gt) ==
    {pr \in Positives(n) \X Negatives(n) :
        IF gt = 1 THEN scalar_pred[pr[1]][n] > scalar_pred[pr[2]][n]
        ELSE scalar_pred[pr[1]][n] = scalar_pred[pr[2]][n]}

\* C28: for every class with P >= 1 true and N >= 1 not-true records the
\* per-class AUROC equals (pairs with the true record scored strictly higher +
\* half the pairs with equal scores) / (P*N), and lies in [0,1].
C28_AurocCountsPairs ==
    (pc = "auc_done") =>
        \A n \in 1..NumClasses(labels) :
            (Positives(n) # {} /\ Negatives(n) # {}) =>
                LET a  == Val(result)[3][n]
                    PN == Cardinality(Positives(n)) * Cardinality(Negatives(n))
                IN  /\ ~IsNaN(a)
                    /\ a[1] * (2 * PN) =
                          a[2] * (2 * Cardinality(PairsOf(n, 1)) + Cardinality(PairsOf(n, 0)))
                    /\ 0 <= a[1] /\ a[1] <= a[2]

\* a class with a tied pair, a pair ranked right and a pair ranked wrong
C28_Witness ==
    /\ pc = "auc_done"
    /\ \E n \in 1..NumClasses(labels) :
          /\ PairsOf(n, 0) # {}
          /\ PairsOf(n, 1) # {}
          /\ Cardinality(PairsOf(n, 0)) + Cardinality(PairsOf(n, 1))
                < Cardinality(Positives(n)) * Cardinality(Negatives(n))
          /\ ~IsNaN(Val(result)[3][n])

\* C29: the per-class AUROC is NaN exactly when the class has no true record
\* or no not-true record, the per-class AUPRC is NaN exactly when the class has
\* no true record; the precision is undefined at the sentinel step only and
\* never makes the AUPRC NaN.
C29_NaNExactly ==
    /\ (pc = "auc_done") =>
          \A n \in 1..NumClasses(labels) :
              /\ IsNaN(Val(result)[3][n]) <=> (Positives(n) = {} \/ Negatives(n) = {})
              /\ IsNaN(Val(result)[4][n]) <=> Positives(n) = {}
    /\ InSweep =>
          /\ IsNaN(Ppv(sweep.cs[1]))
          /\ \A m \in 2..Len(sweep.cs) : StepDone(m) => ~IsNaN(Ppv(sweep.cs[m]))

\* a call returned a class without any not-true record: its AUROC is NaN, its
\* AUPRC a number; and a class with both kinds of records
C29_Witness ==
    /\ pc = "auc_done"
    /\ \E n, m \in 1..NumClasses(labels) :
          /\ Negatives(n) = {}
          /\ IsNaN(Val(result)[3][n])
          /\ ~IsNaN(Val(result)[4][n])
          /\ Positives(m) # {} /\ Negatives(m) # {}
          /\ ~IsNaN(Val(result)[3][m])

\* ------------------------------------------------------------------ classes reordered
\* the columns of m in the order q
PermuteColumns(m, q) == [r \in 1..Len(m) |-> [n \in 1..Len(q) |-> m[r][q[n]]]]

\* the matrix of the single column n of m
OnlyColumn(m, n) == [r \in 1..Len(m) |-> <<m[r][n]>>]

\* the array arr in the order q
Reorder(arr, q) == [n \in 1..Len(q) |-> arr[q[n]]]

InitFrames ==
    /\ \E s \in Shapes(MaxCellsW) :
          /\ labels \in Matrices(s[1], s[2], {0, 1})
          /\ \/ /\ pc \in {"cm_call", "mcm_call", "acc_call"}
                /\ outputs \in Matrices(s[1], s[2], {0, 1})
                /\ scalar_pred = <<>>
                /\ weights = <<>>
                /\ classes = <<>>
                /\ sinus_rhythm = ""
             \/ /\ pc = "ch_call"
                /\ outputs \in Matrices(s[1], s[2], {0, 1})
                /\ scalar_pred = <<>>
                /\ weights \in Weights(s[2])
                /\ classes = SubSeq(ClassNames, 1, s[2])
                /\ sinus_rhythm \in Range(classes) \cup {MissingName}
             \/ /\ pc = "auc_call"
                /\ outputs = <<>>
                /\ scalar_pred \in Matrices(s[1], s[2], 0..ScoreLevels)
                /\ weights = <<>>
                /\ classes = <<>>
                /\ sinus_rhythm = ""
    /\ normalize \in IF pc = "cm_call" THEN BOOLEAN ELSE {FALSE}
    /\ i = 0
    /\ A = Unbound
    /\ sinus_rhythm_index = Unbound
    /\ observed_score = Unbound
    /\ correct_score = Unbound
    /\ inactive_score = Unbound
    /\ result = Unbound
    /\ class_k = 0
    /\ num_correct_recordings = Unbound
    /\ f_measure = Unbound
    /\ auroc = Unbound
    /\ auprc = Unbound
    /\ locals = <<>>
    /\ entry = ""
    /\ NoRest

NextFrames == NextCM \/ NextMCM \/ NextAcc \/ NextCh \/ NextSweep

SpecFrames == InitFrames /\ [][NextFrames]_vars

\* the label, prediction, score and weight arrays are what they were
ArgumentsKept ==
    /\ labels' = labels
    /\ outputs' = outputs
    /\ scalar_pred' = scalar_pred
    /\ weights' = weights

====
